---- MODULE Spec2Model ----
(***************************************************************************)
(* procom: a relay between local streams (terminal or two FIFOs) and one   *)
(* socket.  The model covers main (procom.c), the socket resolver and the  *)
(* byte-wise socket I/O (socket.c), the two transfer threads and the three *)
(* signal handlers.  A step of the model is one system call or one access  *)
(* to a shared global; a signal handler runs as a frame pushed on top of   *)
(* the thread it interrupts.                                               *)
(***************************************************************************)
EXTENDS Integers, Sequences, FiniteSets, TLC

\* ---------------------------------------------------------------- bounds
\* number of signals the outside causes in one run: SIGINT, and SIGPIPE by
\* closing the other end of a pipe or socket
MaxSignals == 1
\* longest input script of one source
MaxInput == 4
\* stands for sizeof(buffer) - 1 = 1023, the size handed to read and write
BufLimit == 2

\* ------------------------------------------------------------- constants
NoFd == -1
NUL == 0
NL == 10
Backlog == 1

\* descriptors the kernel hands out (0, 1, 2 are the terminal)
Fds == 3..6
\* the byte values used: NUL, newline and the letter a
Bytes == {NUL, NL, 97}
Threads == {"main", "stdin_thread", "stdout_thread"}
Loops == {"stdin_thread", "stdout_thread"}
Handles == {"stdout_fifo", "stdin_fifo", "sockfd", "servfd"}
Sources == {"tty", "fin", "sock"}
Sinks == {"tty", "fout", "sock"}

VARIABLES
  args,           \* which options were given: address/port, stdin path, stdout path
  handle,         \* the four global descriptors sockfd, servfd, stdin_fifo, stdout_fifo
  running,        \* stdin_running, stdout_running
  fdt,            \* the kernel's descriptor table: what each descriptor is open on
  closeCalls,     \* close() calls made on a descriptor value since it was last opened
  closeRet,       \* what the last socket_close saw and returned
  pc,             \* position of each thread in its routine
  stack,          \* frames above the routine: signal handlers, close sequences
  intr,           \* the blocking call of the thread was interrupted by a handler
  pend,           \* thread-directed signals not yet delivered
  loc,            \* locals of the routine: descriptor in use, buffer, index
  input,          \* bytes each source will still deliver
  input0,         \* the bytes each source was given at the start
  wr,             \* what each loop has written: pairs <<sink, byte>> in order
  netlog,         \* network calls made by the resolver, in order
  hist,           \* facts about the run that the properties refer to
  sigints,        \* SIGINT delivered so far
  sigpipes,       \* broken-pipe writes so far
  exit_status     \* main's return value, -1 while running

vars == <<args, handle, running, fdt, closeCalls, closeRet, pc, stack, intr, pend,
          loc, input, input0, wr, netlog, hist, sigints, sigpipes, exit_status>>

sockfd == handle["sockfd"]
servfd == handle["servfd"]
stdin_fifo == handle["stdin_fifo"]
stdout_fifo == handle["stdout_fifo"]
stdin_running == running["stdin_thread"]
stdout_running == running["stdout_thread"]

\* ---------------------------------------------------------------- kernel
IsOpen(fd) == fd \in {0, 1} \/ (fd \in Fds /\ fdt[fd] # "free")

\* the lowest free descriptor, as open/socket/accept return it
LowestFree == CHOOSE f \in Fds : fdt[f] = "free" /\ \A g \in Fds : g < f => fdt[g] # "free"

\* what a descriptor reads from / writes to
Endpoint(fd) == IF fd \in {0, 1} THEN "tty" ELSE fdt[fd]

Opened(kind) == /\ fdt' = [fdt EXCEPT ![LowestFree] = kind]
                /\ closeCalls' = [closeCalls EXCEPT ![LowestFree] = 0]

\* close(fd) on a local descriptor that no other context can see
CloseLocal(fd) == /\ fdt' = [fdt EXCEPT ![fd] = "free"]
                  /\ closeCalls' = [closeCalls EXCEPT ![fd] = @ + 1]

Log(call, arg, ok) == netlog' = Append(netlog, [call |-> call, arg |-> arg, ok |-> ok])

\* ------------------------------------------------------------ call stack
Idle(t) == stack[t] = <<>>
Top(t) == stack[t][Len(stack[t])]
Pop(t) == SubSeq(stack[t], 1, Len(stack[t]) - 1)
CloseOrder == <<"stdout_fifo", "stdin_fifo", "sockfd", "servfd">>
Alive(t) == pc[t] \notin {"idle", "done"}
Running == pc["main"] # "done"

\* ------------------------------------------------------------------ Init
\* the input scripts of the sources that the given options can use
Scripts == {<<NL>>}

\* can the program read from this source with the options it was given
CanUse(s) == s = "tty" \/ (s = "fin" /\ args.stdin_path) \/ (s = "sock" /\ args.address)

InitLoc == [fd |-> NoFd, fn |-> "none", ep |-> "none", idx |-> 0, buf |-> <<>>]

\* connfd: the socket connect() succeeded on; accepted: accept() returned a
\* socket; ret, retfd: what client_or_server_socket_create returned and the
\* value of sockfd then; tsc: what try_socket_create returned
InitHist == [connfd |-> NoFd, accepted |-> FALSE, ret |-> -1, retfd |-> NoFd, tsc |-> -1,
             fifoOpened |-> FALSE, sigBoth |-> FALSE, peerEof |-> FALSE, sigStarted |-> FALSE]

InitCloseRet == [h |-> "none", sentinel |-> FALSE, ret |-> 0, changed |-> FALSE,
                 closed |-> {}]

\* the state at the start of main, apart from the descriptors and the input
InitRest ==
  /\ running = [t \in Loops |-> FALSE]
  /\ closeRet = InitCloseRet
  /\ pc = [t \in Threads |-> IF t = "main" THEN "try_socket_create" ELSE "idle"]
  /\ stack = [t \in Threads |-> <<>>]
  /\ intr = [t \in Threads |-> FALSE]
  /\ pend = [t \in Threads |-> {}]
  /\ loc = [t \in Threads |-> InitLoc]
  /\ input0 = input
  /\ wr = [t \in Loops |-> <<>>]
  /\ netlog = <<>>
  /\ hist = InitHist
  /\ sigints = 0
  /\ sigpipes = 0
  /\ exit_status = -1

InitCommon ==
  /\ handle = [h \in Handles |-> NoFd]
  /\ fdt = [f \in Fds |-> "free"]
  /\ closeCalls = [f \in Fds |-> 0]
  /\ InitRest

Init ==
  /\ args \in [address : BOOLEAN, stdin_path : BOOLEAN, stdout_path : BOOLEAN]
  /\ \E script \in Scripts : input = [s \in Sources |-> IF CanUse(s) THEN script ELSE <<>>]
  /\ InitCommon

\* ---------------------------------------------------------- socket_close
\* socket_close(&h), first half: the test for the sentinel and the close() call.
\* close() of a descriptor that is not open fails, and the function returns
\* before the store.
socket_close_call(h) ==
  IF handle[h] = NoFd
  THEN UNCHANGED <<fdt, closeCalls>>
  ELSE /\ closeCalls' = [closeCalls EXCEPT ![handle[h]] = IF @ < 2 THEN @ + 1 ELSE @]
       /\ fdt' = IF IsOpen(handle[h]) THEN [fdt EXCEPT ![handle[h]] = "free"] ELSE fdt

\* does socket_close(&h) get past its close() call to the store
socket_close_stores(h) == handle[h] # NoFd /\ IsOpen(handle[h])

\* socket_close(&h), second half: the store of the sentinel
socket_close_store(h) == handle' = [handle EXCEPT ![h] = NoFd]

\* socket_close without its test for the sentinel: close(-1) fails
socket_close_ret_unguarded(h) == IF IsOpen(handle[h]) THEN 0 ELSE -1

\* the value socket_close(&h) returns
socket_close_ret(h) == IF handle[h] = NoFd \/ IsOpen(handle[h]) THEN 0 ELSE -1

\* one whole call socket_close(&h) with nothing running beside it, and what
\* it saw, returned and changed
SocketClose(h) ==
  /\ socket_close_call(h)
  /\ IF socket_close_stores(h) THEN socket_close_store(h) ELSE UNCHANGED handle
  /\ closeRet' = [h |-> h,
                  sentinel |-> handle[h] = NoFd,
                  ret |-> socket_close_ret(h),
                  changed |-> <<handle', fdt', closeCalls'>> # <<handle, fdt, closeCalls>>,
                  closed |-> IF socket_close_stores(h) THEN closeRet.closed \cup {h}
                             ELSE closeRet.closed]
  /\ UNCHANGED <<args, running, pc, stack, intr, pend, loc, input, input0, wr,
                 netlog, hist, sigints, sigpipes, exit_status>>

\* stdin_fifo_close / stdout_fifo_close: closing is idempotent and leaves the
\* sentinel; the close of an open FIFO and the store are one step
fifo_close(h) ==
  IF handle[h] = NoFd
  THEN UNCHANGED <<handle, fdt, closeCalls>>
  ELSE /\ closeCalls' = [closeCalls EXCEPT ![handle[h]] = IF @ < 2 THEN @ + 1 ELSE @]
       /\ fdt' = [fdt EXCEPT ![handle[h]] = "free"]
       /\ handle' = [handle EXCEPT ![h] = NoFd]

IsFifo(h) == h \in {"stdin_fifo", "stdout_fifo"}

\* A close of a handle that holds the sentinel only reads the handle and
\* returns.  No handle leaves the sentinel while a close sequence can run
\* beside another thread, so such a close takes no step of its own: a close
\* sequence moves straight to its next handle that does not hold the sentinel.
FirstOpen(hnd, k) ==
  IF \E j \in k..Len(CloseOrder) : hnd[CloseOrder[j]] # NoFd
  THEN CHOOSE j \in k..Len(CloseOrder) :
         /\ hnd[CloseOrder[j]] # NoFd
         /\ \A i \in k..(j - 1) : hnd[CloseOrder[i]] = NoFd
  ELSE Len(CloseOrder) + 1

\* the frames (none or one) of a function that starts with the closes from k on:
\* fifos_socket_close in a handler, the closes of main, one socket_close
Enter(fn, k, hnd) ==
  LET j == IF fn # "socket_close" THEN FirstOpen(hnd, k)
           ELSE IF k <= Len(CloseOrder) /\ hnd[CloseOrder[k]] # NoFd THEN k
           ELSE Len(CloseOrder) + 1
  IN IF j <= Len(CloseOrder) THEN <<[fn |-> fn, k |-> j, ph |-> "call"]>>
     ELSE IF fn \in {"sigint_handler", "sigpipe_handler"}
          THEN <<[fn |-> fn, k |-> Len(CloseOrder), ph |-> "kill_stdin"]>>
          ELSE <<>>

\* the stack of t once the current close of its top frame has returned
AfterClose(t, hnd) == Pop(t) \o Enter(Top(t).fn, Top(t).k + 1, hnd)

\* a close of a FIFO in fifos_socket_close or at the end of main
FifoClose(t) ==
  /\ Running /\ ~Idle(t) /\ Top(t).ph = "call" /\ IsFifo(CloseOrder[Top(t).k])
  /\ fifo_close(CloseOrder[Top(t).k])
  /\ stack' = [stack EXCEPT ![t] = AfterClose(t, handle')]
  /\ UNCHANGED <<args, running, closeRet, pc, intr, pend, loc, input, input0, wr,
                 netlog, hist, sigints, sigpipes, exit_status>>

\* a socket_close of sockfd or servfd: the test and the close() call
CloseCall(t) ==
  /\ Running /\ ~Idle(t) /\ Top(t).ph = "call" /\ ~IsFifo(CloseOrder[Top(t).k])
  /\ LET h == CloseOrder[Top(t).k] IN
       /\ socket_close_call(h)
       /\ stack' = IF socket_close_stores(h)
                   THEN [stack EXCEPT ![t][Len(stack[t])] = [Top(t) EXCEPT !.ph = "store"]]
                   ELSE [stack EXCEPT ![t] = AfterClose(t, handle)]
  /\ UNCHANGED <<args, handle, running, closeRet, pc, intr, pend, loc, input, input0, wr,
                 netlog, hist, sigints, sigpipes, exit_status>>

\* the store *sockfd = -1 that follows a successful close()
CloseStore(t) ==
  /\ Running /\ ~Idle(t) /\ Top(t).ph = "store"
  /\ socket_close_store(CloseOrder[Top(t).k])
  /\ stack' = [stack EXCEPT ![t] = AfterClose(t, handle')]
  /\ UNCHANGED <<args, running, fdt, closeCalls, closeRet, pc, intr, pend, loc, input,
                 input0, wr, netlog, hist, sigints, sigpipes, exit_status>>

\* pthread_kill(thread, SIGUSR1): the signal becomes pending on a live thread
pthread_kill(target) ==
  pend' = IF Alive(target) THEN [pend EXCEPT ![target] = @ \cup {"SIGUSR1"}] ELSE pend

\* if(stdin_running) pthread_kill(stdin_thread, SIGUSR1);
HandlerKillStdin(t) ==
  /\ Running /\ ~Idle(t) /\ Top(t).ph = "kill_stdin"
  /\ IF stdin_running THEN pthread_kill("stdin_thread") ELSE UNCHANGED pend
  /\ stack' = [stack EXCEPT ![t][Len(stack[t])] = [Top(t) EXCEPT !.ph = "kill_stdout"]]
  /\ UNCHANGED <<args, handle, running, fdt, closeCalls, closeRet, pc, intr, loc, input,
                 input0, wr, netlog, hist, sigints, sigpipes, exit_status>>

\* if(stdout_running) pthread_kill(stdout_thread, SIGUSR1); and the handler returns
HandlerKillStdout(t) ==
  /\ Running /\ ~Idle(t) /\ Top(t).ph = "kill_stdout"
  /\ IF stdout_running THEN pthread_kill("stdout_thread") ELSE UNCHANGED pend
  /\ stack' = [stack EXCEPT ![t] = Pop(t)]
  /\ UNCHANGED <<args, handle, running, fdt, closeCalls, closeRet, pc, intr, loc, input,
                 input0, wr, netlog, hist, sigints, sigpipes, exit_status>>

\* --------------------------------------------------------------- signals
Handler(sig) == CASE sig = "SIGINT" -> "sigint_handler"
                  [] sig = "SIGPIPE" -> "sigpipe_handler"
                  [] sig = "SIGUSR1" -> "sigusr1_handler"

\* a signal is blocked in a thread while its own handler runs there (sa_mask
\* is empty, so the other signals are not)
Masked(t, sig) == \E i \in 1..Len(stack[t]) : stack[t][i].fn = Handler(sig)

\* the routine of t is inside a blocking read, recv or accept
InSyscall(t) == pc[t] \in {"read_blk", "accept_blk"}

\* stdin_stdout_thread_start has created both loop threads
BothStarted == \A t \in Loops : pc[t] # "idle"

BothBlocked == /\ \A t \in Loops : pc[t] = "read_blk" /\ Idle(t) /\ ~intr[t]
               /\ stdin_running /\ stdout_running

\* the handler of sig starts on thread t; sa_flags = 0, so a blocking call
\* of t fails with EINTR once the handler has returned
Deliver(t, sig) ==
  /\ Running /\ Alive(t) /\ ~Masked(t, sig)
  /\ stack' = [stack EXCEPT ![t] = @ \o Enter(Handler(sig), 1, handle)]
  /\ intr' = [intr EXCEPT ![t] = @ \/ InSyscall(t)]

\* SIGINT from outside, taken by any thread of the process
Sigint(t) ==
  /\ sigints + sigpipes < MaxSignals
  /\ Deliver(t, "SIGINT")
  /\ sigints' = sigints + 1
  /\ hist' = [hist EXCEPT !.sigBoth = @ \/ BothBlocked, !.sigStarted = @ \/ BothStarted]
  /\ UNCHANGED <<args, handle, running, fdt, closeCalls, closeRet, pc, pend, loc, input,
                 input0, wr, netlog, sigpipes, exit_status>>

\* a pending SIGUSR1 is delivered to its thread
Sigusr1(t) ==
  /\ "SIGUSR1" \in pend[t]
  /\ Deliver(t, "SIGUSR1")
  /\ pend' = [pend EXCEPT ![t] = @ \ {"SIGUSR1"}]
  /\ UNCHANGED <<args, handle, running, fdt, closeCalls, closeRet, pc, loc, input,
                 input0, wr, netlog, hist, sigints, sigpipes, exit_status>>

\* ------------------------------------------------------------------ main
At(t, p) == Running /\ Idle(t) /\ pc[t] = p
Goto(t, p) == pc' = [pc EXCEPT ![t] = p]
SetFd(t, fd) == loc' = [loc EXCEPT ![t].fd = fd]

\* try_socket_create without its early return: the defaults are always taken
try_socket_create_always ==
  /\ At("main", "try_socket_create")
  /\ Goto("main", "cl_socket")
  /\ UNCHANGED <<args, handle, running, fdt, closeCalls, closeRet, stack, intr, pend, loc,
                 input, input0, wr, netlog, hist, sigints, sigpipes, exit_status>>

\* try_socket_create: no address and no port, no socket
try_socket_create ==
  /\ At("main", "try_socket_create")
  /\ IF ~args.address
     THEN /\ Goto("main", "fifo_open_in")
          /\ hist' = [hist EXCEPT !.tsc = 0]
     ELSE /\ Goto("main", "cl_socket")
          /\ UNCHANGED hist
  /\ UNCHANGED <<args, handle, running, fdt, closeCalls, closeRet, stack, intr, pend, loc,
                 input, input0, wr, netlog, sigints, sigpipes, exit_status>>

\* socket_create: socket() gives the lowest free descriptor or fails; a
\* process that socket() has failed once does not get a socket later
socket_create(kind, next, failed) ==
  \/ /\ \A i \in 1..Len(netlog) : netlog[i].call = "socket" => netlog[i].ok
     /\ Opened(kind)
     /\ SetFd("main", LowestFree)
     /\ Log("socket", 0, TRUE)
     /\ Goto("main", next)
  \/ /\ SetFd("main", NoFd)
     /\ Log("socket", 0, FALSE)
     /\ Goto("main", failed)
     /\ UNCHANGED <<fdt, closeCalls>>

\* one of connect, bind, listen on the local descriptor: on failure the
\* local descriptor is closed and the create function returns -1
socket_setup(call, arg, next, failed) ==
  \/ /\ Log(call, arg, TRUE)
     /\ Goto("main", next)
     /\ UNCHANGED <<fdt, closeCalls, loc>>
  \/ /\ Log(call, arg, FALSE)
     /\ CloseLocal(loc["main"].fd)
     /\ SetFd("main", NoFd)
     /\ Goto("main", failed)

\* client_socket_create: socket()
ClientSocket ==
  /\ At("main", "cl_socket")
  /\ socket_create("sock", "cl_connect", "cl_store")
  /\ UNCHANGED <<args, handle, running, closeRet, stack, intr, pend, input, input0, wr,
                 hist, sigints, sigpipes, exit_status>>

\* client_socket_create: connect()
ClientConnect ==
  /\ At("main", "cl_connect")
  /\ socket_setup("connect", 0, "cl_store", "cl_store")
  /\ hist' = [hist EXCEPT !.connfd = IF netlog'[Len(netlog')].ok THEN loc["main"].fd
                                     ELSE NoFd]
  /\ UNCHANGED <<args, handle, running, closeRet, stack, intr, pend, input, input0, wr,
                 sigints, sigpipes, exit_status>>

\* *sockfd = client_socket_create(...)
ClientStore ==
  /\ At("main", "cl_store")
  /\ handle' = [handle EXCEPT !["sockfd"] = loc["main"].fd]
  /\ Goto("main", "cl_test")
  /\ UNCHANGED <<args, running, fdt, closeCalls, closeRet, stack, intr, pend, loc, input,
                 input0, wr, netlog, hist, sigints, sigpipes, exit_status>>

\* if(*sockfd != -1) return 0;
ClientTest ==
  /\ At("main", "cl_test")
  /\ IF sockfd # NoFd
     THEN /\ Goto("main", "fifo_open_in")
          /\ hist' = [hist EXCEPT !.ret = 0, !.retfd = sockfd, !.tsc = 0]
     ELSE /\ Goto("main", "sv_socket")
          /\ UNCHANGED hist
  /\ UNCHANGED <<args, handle, running, fdt, closeCalls, closeRet, stack, intr, pend, loc,
                 input, input0, wr, netlog, sigints, sigpipes, exit_status>>

\* server_socket_create: socket()
ServerSocket ==
  /\ At("main", "sv_socket")
  /\ socket_create("serv", "sv_bind", "sv_store")
  /\ UNCHANGED <<args, handle, running, closeRet, stack, intr, pend, input, input0, wr,
                 hist, sigints, sigpipes, exit_status>>

\* server_socket_create that returns after bind() without calling listen
ServerBindOnly ==
  /\ At("main", "sv_bind")
  /\ socket_setup("bind", 0, "sv_store", "sv_store")
  /\ UNCHANGED <<args, handle, running, closeRet, stack, intr, pend, input, input0, wr,
                 hist, sigints, sigpipes, exit_status>>

\* server_socket_create: bind()
ServerBind ==
  /\ At("main", "sv_bind")
  /\ socket_setup("bind", 0, "sv_listen", "sv_store")
  /\ UNCHANGED <<args, handle, running, closeRet, stack, intr, pend, input, input0, wr,
                 hist, sigints, sigpipes, exit_status>>

\* server_socket_create: listen(servfd, 1)
ServerListen ==
  /\ At("main", "sv_listen")
  /\ socket_setup("listen", Backlog, "sv_store", "sv_store")
  /\ UNCHANGED <<args, handle, running, closeRet, stack, intr, pend, input, input0, wr,
                 hist, sigints, sigpipes, exit_status>>

\* *servfd = server_socket_create(...)
ServerStore ==
  /\ At("main", "sv_store")
  /\ handle' = [handle EXCEPT !["servfd"] = loc["main"].fd]
  /\ Goto("main", "sv_test")
  /\ UNCHANGED <<args, running, fdt, closeCalls, closeRet, stack, intr, pend, loc, input,
                 input0, wr, netlog, hist, sigints, sigpipes, exit_status>>

\* if(*servfd == -1) return 1;
ServerTest ==
  /\ At("main", "sv_test")
  /\ IF servfd = NoFd
     THEN /\ Goto("main", "cleanup")
          /\ hist' = [hist EXCEPT !.ret = 1, !.tsc = 1]
     ELSE /\ Goto("main", "accept_call")
          /\ UNCHANGED hist
  /\ UNCHANGED <<args, handle, running, fdt, closeCalls, closeRet, stack, intr, pend, loc,
                 input, input0, wr, netlog, sigints, sigpipes, exit_status>>

\* socket_accept(*servfd, ...): accept() is entered with the value of servfd
AcceptCall ==
  /\ At("main", "accept_call")
  /\ IF IsOpen(servfd)
     THEN /\ SetFd("main", servfd)
          /\ Goto("main", "accept_blk")
          /\ UNCHANGED netlog
     ELSE /\ SetFd("main", NoFd)
          /\ Log("accept", 0, FALSE)
          /\ Goto("main", "ac_store")
  /\ UNCHANGED <<args, handle, running, fdt, closeCalls, closeRet, stack, intr, pend,
                 input, input0, wr, hist, sigints, sigpipes, exit_status>>

\* accept() returns: a connected socket, an error, or EINTR after a handler
AcceptReturn ==
  /\ At("main", "accept_blk")
  /\ \/ /\ ~intr["main"]
        /\ Opened("sock")
        /\ SetFd("main", LowestFree)
        /\ Log("accept", 0, TRUE)
        /\ hist' = [hist EXCEPT !.accepted = TRUE]
        /\ UNCHANGED intr
     \/ /\ SetFd("main", NoFd)
        /\ Log("accept", 0, FALSE)
        /\ intr' = [intr EXCEPT !["main"] = FALSE]
        /\ UNCHANGED <<fdt, closeCalls, hist>>
  /\ Goto("main", "ac_store")
  /\ UNCHANGED <<args, handle, running, closeRet, stack, pend, input, input0, wr,
                 sigints, sigpipes, exit_status>>

\* *sockfd = socket_accept(...)
AcceptStore ==
  /\ At("main", "ac_store")
  /\ handle' = [handle EXCEPT !["sockfd"] = loc["main"].fd]
  /\ Goto("main", "ac_test")
  /\ UNCHANGED <<args, running, fdt, closeCalls, closeRet, stack, intr, pend, loc, input,
                 input0, wr, netlog, hist, sigints, sigpipes, exit_status>>

\* the end of client_or_server_socket_create without socket_close(servfd)
AcceptTestKeepServer ==
  /\ At("main", "ac_test")
  /\ IF sockfd # NoFd
     THEN /\ Goto("main", "fifo_open_in")
          /\ hist' = [hist EXCEPT !.ret = 0, !.retfd = sockfd, !.tsc = 0]
     ELSE /\ Goto("main", "ac_fail")
          /\ UNCHANGED hist
  /\ UNCHANGED <<args, handle, running, fdt, closeCalls, closeRet, stack, intr, pend, loc,
                 input, input0, wr, netlog, sigints, sigpipes, exit_status>>

\* if(*sockfd != -1) return 0; socket_close(servfd, debug);
AcceptTest ==
  /\ At("main", "ac_test")
  /\ IF sockfd # NoFd
     THEN /\ Goto("main", "fifo_open_in")
          /\ hist' = [hist EXCEPT !.ret = 0, !.retfd = sockfd, !.tsc = 0]
          /\ UNCHANGED stack
     ELSE /\ Goto("main", "ac_fail")
          /\ stack' = [stack EXCEPT !["main"] = @ \o Enter("socket_close", 4, handle)]
          /\ UNCHANGED hist
  /\ UNCHANGED <<args, handle, running, fdt, closeCalls, closeRet, intr, pend, loc,
                 input, input0, wr, netlog, sigints, sigpipes, exit_status>>

\* return 2; and try_socket_create returns 1
AcceptFail ==
  /\ At("main", "ac_fail")
  /\ Goto("main", "cleanup")
  /\ hist' = [hist EXCEPT !.ret = 2, !.tsc = 1]
  /\ UNCHANGED <<args, handle, running, fdt, closeCalls, closeRet, stack, intr, pend, loc,
                 input, input0, wr, netlog, sigints, sigpipes, exit_status>>

\* stdin_stdout_fifo_open: open one FIFO if its path was given; a failed open
\* makes the function fail
fifo_open(given, h, kind, next) ==
  IF ~given
  THEN /\ Goto("main", next)
       /\ UNCHANGED <<handle, fdt, closeCalls, hist>>
  ELSE \/ /\ Opened(kind)
          /\ handle' = [handle EXCEPT ![h] = LowestFree]
          /\ hist' = [hist EXCEPT !.fifoOpened = TRUE]
          /\ Goto("main", next)
       \/ /\ Goto("main", "cleanup")
          /\ UNCHANGED <<handle, fdt, closeCalls, hist>>

FifoOpenIn ==
  /\ At("main", "fifo_open_in")
  /\ fifo_open(args.stdin_path, "stdin_fifo", "fin", "fifo_open_out")
  /\ UNCHANGED <<args, running, closeRet, stack, intr, pend, loc, input, input0, wr,
                 netlog, sigints, sigpipes, exit_status>>

FifoOpenOut ==
  /\ At("main", "fifo_open_out")
  /\ fifo_open(args.stdout_path, "stdout_fifo", "fout", "create_stdin")
  /\ UNCHANGED <<args, running, closeRet, stack, intr, pend, loc, input, input0, wr,
                 netlog, sigints, sigpipes, exit_status>>

\* stdin_stdout_thread_start: create both threads, then join both
ThreadCreate(t, here, next) ==
  /\ At("main", here)
  /\ pc' = [pc EXCEPT ![t] = "start", !["main"] = next]
  /\ UNCHANGED <<args, handle, running, fdt, closeCalls, closeRet, stack, intr, pend, loc,
                 input, input0, wr, netlog, hist, sigints, sigpipes, exit_status>>

ThreadJoin(t, here, next) ==
  /\ At("main", here)
  /\ pc[t] = "done"
  /\ Goto("main", next)
  /\ UNCHANGED <<args, handle, running, fdt, closeCalls, closeRet, stack, intr, pend, loc,
                 input, input0, wr, netlog, hist, sigints, sigpipes, exit_status>>

CreateStdin == ThreadCreate("stdin_thread", "create_stdin", "create_stdout")

CreateStdout == ThreadCreate("stdout_thread", "create_stdout", "join_stdin")

JoinStdin == ThreadJoin("stdin_thread", "join_stdin", "join_stdout")

JoinStdout == ThreadJoin("stdout_thread", "join_stdout", "cleanup")

\* the four closes at the end of main
MainCleanup ==
  /\ At("main", "cleanup")
  /\ stack' = [stack EXCEPT !["main"] = @ \o Enter("cleanup", 1, handle)]
  /\ Goto("main", "exit")
  /\ UNCHANGED <<args, handle, running, fdt, closeCalls, closeRet, intr, pend, loc,
                 input, input0, wr, netlog, hist, sigints, sigpipes, exit_status>>

\* return 0;
MainExit ==
  /\ At("main", "exit")
  /\ exit_status' = 0
  /\ Goto("main", "done")
  /\ UNCHANGED <<args, handle, running, fdt, closeCalls, closeRet, stack, intr, pend, loc,
                 input, input0, wr, netlog, hist, sigints, sigpipes>>

\* ------------------------------------------------------- transfer threads
Other(t) == IF t = "stdin_thread" THEN "stdout_thread" ELSE "stdin_thread"

\* stdin_thread_read: the descriptor and the read function the upload loop uses
stdin_thread_read ==
  IF stdin_fifo # NoFd /\ sockfd # NoFd
  THEN [fd |-> stdin_fifo, fn |-> "buffer"]
  ELSE [fd |-> 0, fn |-> "buffer"]

\* stdin_thread_write with its second and third case in the other order
stdin_thread_write_socket_first ==
  IF stdin_fifo # NoFd /\ sockfd # NoFd THEN [fd |-> sockfd, fn |-> "socket"]
  ELSE IF sockfd # NoFd THEN [fd |-> sockfd, fn |-> "socket"]
  ELSE IF stdout_fifo # NoFd THEN [fd |-> stdout_fifo, fn |-> "buffer"]
  ELSE [fd |-> 1, fn |-> "buffer"]

\* stdin_thread_write: the descriptor and the write function the upload loop uses
stdin_thread_write ==
  IF stdin_fifo # NoFd /\ sockfd # NoFd THEN [fd |-> sockfd, fn |-> "socket"]
  ELSE IF stdout_fifo # NoFd THEN [fd |-> stdout_fifo, fn |-> "buffer"]
  ELSE IF sockfd # NoFd THEN [fd |-> sockfd, fn |-> "socket"]
  ELSE [fd |-> 1, fn |-> "buffer"]

\* stdout_thread_read that looks at FIFO-in before the socket
stdout_thread_read_fifo_first ==
  IF stdin_fifo # NoFd THEN [fd |-> stdin_fifo, fn |-> "buffer"]
  ELSE IF sockfd # NoFd THEN [fd |-> sockfd, fn |-> "socket"]
  ELSE [fd |-> NoFd, fn |-> "none"]

\* stdout_thread_read: fn "none" is the branch that returns -1 without reading
stdout_thread_read ==
  IF stdin_fifo # NoFd /\ sockfd # NoFd THEN [fd |-> sockfd, fn |-> "socket"]
  ELSE IF sockfd # NoFd THEN [fd |-> sockfd, fn |-> "socket"]
  ELSE IF stdin_fifo # NoFd THEN [fd |-> stdin_fifo, fn |-> "buffer"]
  ELSE [fd |-> NoFd, fn |-> "none"]

\* stdout_thread_write
stdout_thread_write ==
  IF stdout_fifo # NoFd /\ sockfd # NoFd
  THEN [fd |-> stdout_fifo, fn |-> "buffer"]
  ELSE [fd |-> 1, fn |-> "buffer"]

thread_read(t) == IF t = "stdin_thread" THEN stdin_thread_read ELSE stdout_thread_read

thread_write(t) == IF t = "stdin_thread" THEN stdin_thread_write ELSE stdout_thread_write

\* socket_read whose loop lets index reach size before it stops
socket_read_over(symbol, index) == index <= BufLimit /\ symbol # NL

\* socket_read: the loop goes on while index < size and the last byte is no newline
socket_read_more(symbol, index) == index < BufLimit /\ symbol # NL

\* buffer_read: a line ends with a newline or a null byte, or at the buffer's size
buffer_read_more(symbol, index) == index < BufLimit /\ symbol \notin {NL, NUL}

\* socket_write whose loop stops one byte short of size
socket_write_short(symbol, index) == index < BufLimit - 1 /\ symbol \notin {NUL, NL}

\* socket_write: the loop stops at size, and after a null byte or a newline
socket_write_more(symbol, index) == index < BufLimit /\ symbol \notin {NUL, NL}

\* buffer_write: the same discipline as socket_write
buffer_write_more(symbol, index) == index < BufLimit /\ symbol \notin {NUL, NL}

\* buffer[index] of the zero-filled buffer that holds the bytes read
BufferAt(t, index) == IF index < Len(loc[t].buf) THEN loc[t].buf[index + 1] ELSE NUL

\* after the write function has returned (its result is not looked at):
\* memset clears the buffer, and the loop condition reads again
WriteDone(t) == /\ Goto(t, "read_sel")
                /\ loc' = [loc EXCEPT ![t] = InitLoc]

\* the read function returned 0 or -1: the loop is left, its locals are dead
LoopEnd(t) == /\ Goto(t, "kill")
              /\ loc' = [loc EXCEPT ![t] = InitLoc]

\* the routine starts: stdout_routine returns at once when there is neither
\* FIFO-in nor socket; otherwise the running flag is set
RoutineStart(t) ==
  /\ At(t, "start")
  /\ IF t = "stdout_thread" /\ stdin_fifo = NoFd /\ sockfd = NoFd
     THEN /\ Goto(t, "done")
          /\ UNCHANGED running
     ELSE /\ Goto(t, "read_sel")
          /\ running' = [running EXCEPT ![t] = TRUE]
  /\ UNCHANGED <<args, handle, fdt, closeCalls, closeRet, stack, intr, pend, loc, input,
                 input0, wr, netlog, hist, sigints, sigpipes, exit_status>>

\* the loop condition calls <thread>_read, which picks the source from the globals
ReadSelect(t) ==
  /\ At(t, "read_sel")
  /\ LET r == thread_read(t) IN
       IF r.fn = "none"
       THEN LoopEnd(t)
       ELSE /\ loc' = [loc EXCEPT ![t] = [InitLoc EXCEPT !.fd = r.fd, !.fn = r.fn]]
            /\ Goto(t, "read_call")
  /\ UNCHANGED <<args, handle, running, fdt, closeCalls, closeRet, stack, intr, pend,
                 input, input0, wr, netlog, hist, sigints, sigpipes, exit_status>>

\* read(fd, &symbol, 1) or recv(...) is entered: a descriptor that is not open
\* fails at once (the function returns -1 and the loop ends), else the call blocks
ReadCall(t) ==
  /\ At(t, "read_call")
  /\ IF IsOpen(loc[t].fd)
     THEN /\ loc' = [loc EXCEPT ![t].ep = Endpoint(loc[t].fd)]
          /\ Goto(t, "read_blk")
     ELSE LoopEnd(t)
  /\ UNCHANGED <<args, handle, running, fdt, closeCalls, closeRet, stack, intr, pend,
                 input, input0, wr, netlog, hist, sigints, sigpipes, exit_status>>

\* the blocked call fails with EINTR: a handler ran on this thread meanwhile
ReadInterrupted(t) ==
  /\ At(t, "read_blk")
  /\ intr[t]
  /\ intr' = [intr EXCEPT ![t] = FALSE]
  /\ LoopEnd(t)
  /\ UNCHANGED <<args, handle, running, fdt, closeCalls, closeRet, stack, pend,
                 input, input0, wr, netlog, hist, sigints, sigpipes, exit_status>>

\* one byte arrives: it is stored, and the read function returns the count
\* when its loop condition fails
ReadByte(t) ==
  /\ At(t, "read_blk")
  /\ ~intr[t]
  /\ loc[t].ep \in Sources
  /\ input[loc[t].ep] # <<>>
  /\ LET symbol == Head(input[loc[t].ep])
         index == loc[t].idx + 1
         more == IF loc[t].fn = "socket" THEN socket_read_more(symbol, index)
                                         ELSE buffer_read_more(symbol, index)
     IN /\ input' = [input EXCEPT ![loc[t].ep] = Tail(@)]
        /\ loc' = [loc EXCEPT ![t].buf = Append(@, symbol), ![t].idx = index]
        /\ Goto(t, IF more THEN "read_call" ELSE "write_sel")
  /\ UNCHANGED <<args, handle, running, fdt, closeCalls, closeRet, stack, intr, pend,
                 input0, wr, netlog, hist, sigints, sigpipes, exit_status>>

\* the source is at its end (the peer closed, end of input): status 0, the
\* read function returns 0 and the loop ends
ReadEof(t) ==
  /\ At(t, "read_blk")
  /\ ~intr[t]
  /\ loc[t].ep \in Sources
  /\ input[loc[t].ep] = <<>>
  /\ LoopEnd(t)
  /\ hist' = [hist EXCEPT !.peerEof = @ \/ (t = "stdout_thread" /\ loc[t].ep = "sock")]
  /\ UNCHANGED <<args, handle, running, fdt, closeCalls, closeRet, stack, intr, pend,
                 input, input0, wr, netlog, sigints, sigpipes, exit_status>>

\* the loop body calls <thread>_write, which picks the sink from the globals
WriteSelect(t) ==
  /\ At(t, "write_sel")
  /\ LET w == thread_write(t) IN
       loc' = [loc EXCEPT ![t].fd = w.fd, ![t].fn = w.fn, ![t].idx = 0]
  /\ Goto(t, "write_call")
  /\ UNCHANGED <<args, handle, running, fdt, closeCalls, closeRet, stack, intr, pend,
                 input, input0, wr, netlog, hist, sigints, sigpipes, exit_status>>

\* write(fd, &symbol, 1) or send(...): one byte of the buffer goes to the sink
WriteByte(t) ==
  /\ At(t, "write_call")
  /\ LET symbol == BufferAt(t, loc[t].idx)
         index == loc[t].idx + 1
         more == IF loc[t].fn = "socket" THEN socket_write_more(symbol, index)
                                         ELSE buffer_write_more(symbol, index)
     IN IF IsOpen(loc[t].fd) /\ Endpoint(loc[t].fd) \in Sinks
        THEN /\ wr' = [wr EXCEPT ![t] = Append(@, <<Endpoint(loc[t].fd), symbol>>)]
             /\ IF more
                THEN /\ loc' = [loc EXCEPT ![t].idx = index]
                     /\ UNCHANGED pc
                ELSE WriteDone(t)
        ELSE /\ WriteDone(t)
             /\ UNCHANGED wr
  /\ UNCHANGED <<args, handle, running, fdt, closeCalls, closeRet, stack, intr, pend,
                 input, input0, netlog, hist, sigints, sigpipes, exit_status>>

\* the write hits a pipe or socket whose other end is gone: SIGPIPE is raised
\* in the writing thread and the call fails
WriteBrokenPipe(t) ==
  /\ At(t, "write_call")
  /\ sigints + sigpipes < MaxSignals
  /\ IsOpen(loc[t].fd) /\ Endpoint(loc[t].fd) \in {"sock", "fout"}
  /\ sigpipes' = sigpipes + 1
  /\ stack' = [stack EXCEPT ![t] = @ \o Enter("sigpipe_handler", 1, handle)]
  /\ WriteDone(t)
  /\ UNCHANGED <<args, handle, running, fdt, closeCalls, closeRet, intr, pend,
                 input, input0, wr, netlog, hist, sigints, exit_status>>

\* after the loop: pthread_kill(<other thread>, SIGUSR1);
RoutineKill(t) ==
  /\ At(t, "kill")
  /\ pthread_kill(Other(t))
  /\ Goto(t, "unrun")
  /\ UNCHANGED <<args, handle, running, fdt, closeCalls, closeRet, stack, intr, loc,
                 input, input0, wr, netlog, hist, sigints, sigpipes, exit_status>>

\* <thread>_running = false; return NULL;
RoutineEnd(t) ==
  /\ At(t, "unrun")
  /\ running' = [running EXCEPT ![t] = FALSE]
  /\ Goto(t, "done")
  /\ pend' = [pend EXCEPT ![t] = {}]
  /\ UNCHANGED <<args, handle, fdt, closeCalls, closeRet, stack, intr, loc,
                 input, input0, wr, netlog, hist, sigints, sigpipes, exit_status>>

\* ---------------------------------------------------------- specification
Resolver ==
  \/ try_socket_create
  \/ ClientSocket \/ ClientConnect \/ ClientStore \/ ClientTest
  \/ ServerSocket \/ ServerBind \/ ServerListen \/ ServerStore \/ ServerTest
  \/ AcceptCall \/ AcceptReturn \/ AcceptStore \/ AcceptTest \/ AcceptFail

Main ==
  \/ Resolver
  \/ FifoOpenIn \/ FifoOpenOut
  \/ CreateStdin \/ CreateStdout \/ JoinStdin \/ JoinStdout
  \/ MainCleanup \/ MainExit

\* the steps a loop thread takes by itself
Routine(t) ==
  \/ RoutineStart(t) \/ ReadSelect(t) \/ ReadCall(t) \/ ReadInterrupted(t)
  \/ WriteSelect(t) \/ WriteByte(t) \/ RoutineKill(t) \/ RoutineEnd(t)

\* the steps of a frame: a handler or a close sequence
Frames(t) ==
  \/ FifoClose(t) \/ CloseCall(t) \/ CloseStore(t)
  \/ HandlerKillStdin(t) \/ HandlerKillStdout(t)

\* what the outside does: input arrives, a source ends, a pipe breaks, SIGINT
Environment ==
  \/ \E t \in Loops : ReadByte(t) \/ ReadEof(t) \/ WriteBrokenPipe(t)
  \/ \E t \in Threads : Sigint(t)

Program ==
  \/ Main
  \/ \E t \in Loops : Routine(t)
  \/ \E t \in Threads : Frames(t) \/ Sigusr1(t)

Next == Program \/ Environment

Spec == Init /\ [][Next]_vars

\* every thread that can take a step of its own eventually takes one; the
\* outside is under no obligation
FairSpec == Spec /\ WF_vars(Program)

\* ---- the start of main alone: the resolver, the FIFOs, the thread creation,
\* the closes of a failed start, and SIGINT at any point of it
MainStartup ==
  \/ Resolver
  \/ FifoOpenIn \/ FifoOpenOut
  \/ CreateStdin \/ CreateStdout
  \/ MainCleanup \/ MainExit

NextStartup == MainStartup \/ Frames("main") \/ Sigint("main")

SpecStartup == Init /\ [][NextStartup]_vars

\* ---- the relay with both FIFOs and the socket given, fed with every script
\* up to MaxInput bytes on FIFO-in and on the socket, and left alone by the
\* outside: the loops end by end of input
RelayScripts == UNION {[1..n -> Bytes] : n \in 0..MaxInput}

InitRelay ==
  /\ args = [address |-> TRUE, stdin_path |-> TRUE, stdout_path |-> TRUE]
  /\ \E script \in RelayScripts :
       input = [s \in Sources |-> IF s = "tty" THEN <<>> ELSE script]
  /\ InitCommon

NextRelay ==
  \/ Main
  \/ \E t \in Loops : Routine(t) \/ ReadByte(t) \/ ReadEof(t)
  \/ \E t \in Threads : FifoClose(t) \/ CloseCall(t) \/ CloseStore(t) \/ Sigusr1(t)

SpecRelay == InitRelay /\ [][NextRelay]_vars

\* ---- the program under every combination of options, fed one line on each
\* source it can use and left alone by the outside
SpecQuiet == Init /\ [][NextRelay]_vars

\* ---- socket_close alone, applied to sockfd and servfd in every state of a
\* handle: the sentinel, an open descriptor, a descriptor already closed
InitClose ==
  /\ args = [address |-> TRUE, stdin_path |-> FALSE, stdout_path |-> FALSE]
  /\ input = [s \in Sources |-> <<>>]
  /\ handle \in {hnd \in [Handles -> {NoFd, 3, 4}] :
                   /\ hnd["sockfd"] \in {NoFd, 3} /\ hnd["servfd"] \in {NoFd, 4}
                   /\ hnd["stdin_fifo"] = NoFd /\ hnd["stdout_fifo"] = NoFd}
  /\ fdt \in {f \in [Fds -> {"free", "sock", "serv"}] :
                /\ f[3] \in {"free", "sock"} /\ f[4] \in {"free", "serv"}
                /\ f[5] = "free" /\ f[6] = "free"}
  /\ closeCalls \in {c \in [Fds -> 0..1] : \A f \in Fds : fdt[f] # "free" => c[f] = 0}
  /\ InitRest

NextClose == \E h \in {"sockfd", "servfd"} : SocketClose(h)

SpecClose == InitClose /\ [][NextClose]_vars

\* ================================================================ claims
LoopsDone == \A t \in Loops : pc[t] = "done"
AllClosed == \A h \in Handles : handle[h] = NoFd

\* no thread can take a step by itself and no byte of input is waiting: the
\* program stays in this state until the outside acts
Quiescent == ~ENABLED (Program \/ \E t \in Loops : ReadByte(t))

\* C1: whatever the interleaving of the three threads and the handlers of
\* SIGINT, SIGPIPE and SIGUSR1, close() is called at most once on a
\* descriptor value between its opening and its reuse.
C1_CloseAtMostOnce == \A fd \in Fds : closeCalls[fd] <= 1

\* C2: once SIGINT has been delivered while both loops were blocked in a
\* read with their running flags set, both loops terminate and all four
\* handles end at the sentinel; stated on the states the program cannot leave
\* by itself: such a state has both loops done and every handle closed.
C2_SigintEndsBoth == (hist.sigBoth /\ Quiescent) => (LoopsDone /\ AllClosed)

\* C3: once the download loop has seen the end of the socket (the peer closed),
\* the upload loop terminates and does not stay blocked in a later read;
\* stated on the states the program cannot leave by itself.
C3_PeerCloseEndsUpload == (hist.peerEof /\ Quiescent) => pc["stdin_thread"] = "done"

\* C4: socket_close on a handle that already holds -1 makes no close call,
\* leaves the handle at -1 and returns 0, so the calls that follow a successful
\* close change nothing.
C4_CloseOfSentinel ==
  closeRet.sentinel => (closeRet.ret = 0 /\ ~closeRet.changed /\ handle[closeRet.h] = NoFd)

\* a second socket_close of a handle that the first one closed
C4_Witness == closeRet.sentinel /\ closeRet.h \in closeRet.closed /\ closeRet.ret = 0

\* C5: with neither address nor port, try_socket_create succeeds without any
\* socket, connect, bind, listen or accept call, and sockfd and servfd stay -1.
C5_NoAddressNoSocket ==
  ~args.address =>
    /\ netlog = <<>>
    /\ sockfd = NoFd /\ servfd = NoFd
    /\ hist.ret = -1
    /\ hist.tsc = IF pc["main"] = "try_socket_create" THEN -1 ELSE 0

\* main has gone on to start the loops without a socket
C5_Witness == ~args.address /\ hist.tsc = 0 /\ pc["main"] = "join_stdin" /\ netlog = <<>>

Calls(names) == SelectSeq(netlog, LAMBDA e : e.call \in names)
CallNames(seq) == [i \in 1..Len(seq) |-> seq[i].call]
IsPrefix(a, b) == Len(a) <= Len(b) /\ SubSeq(b, 1, Len(a)) = a

\* C6: when the client connect succeeds, the resolver returns success with
\* sockfd the connected socket, attempts no bind, listen or accept, and servfd
\* stays -1.
C6_ConnectedNoServer ==
  hist.connfd # NoFd =>
    /\ Calls({"bind", "listen", "accept"}) = <<>>
    /\ servfd = NoFd
    /\ hist.ret # -1 => (hist.ret = 0 /\ hist.retfd = hist.connfd)

ConnectFailed == \E i \in 1..Len(netlog) : netlog[i].call = "connect" /\ ~netlog[i].ok

\* C7: when the connect fails, the resolver calls bind, listen (backlog 1) and
\* accept in that order, accept exactly once, and no loop starts before that
\* accept has returned a connected socket.
C7_ServerFallbackOrder ==
  ConnectFailed =>
    /\ IsPrefix(CallNames(Calls({"bind", "listen", "accept"})), <<"bind", "listen", "accept">>)
    /\ \A i \in 1..Len(netlog) : netlog[i].call = "listen" => netlog[i].arg = 1
    /\ hist.ret \in {0, 2} => Len(Calls({"accept"})) = 1
    /\ (\E t \in Loops : pc[t] # "idle") =>
         (hist.accepted /\ hist.ret = 0 /\ netlog[Len(netlog)] = [call |-> "accept", arg |-> 0, ok |-> TRUE])

\* the connect failed, the accept gave a socket and the loops were started
C7_Witness == ConnectFailed /\ hist.accepted /\ pc["stdout_thread"] = "start"

\* C8: at most one socket role: when sockfd comes from a successful client
\* connect, servfd is -1; servfd is open only when the client connect failed.
C8_OneRole ==
  /\ (hist.connfd # NoFd /\ sockfd = hist.connfd) => servfd = NoFd
  /\ servfd # NoFd => hist.connfd = NoFd

\* C9: when the resolution fails, sockfd and servfd are -1, no FIFO is opened,
\* no loop is started, main goes on to its final closes and returns 0.
C9_FailedResolution ==
  hist.tsc = 1 =>
    /\ sockfd = NoFd /\ servfd = NoFd
    /\ ~hist.fifoOpened /\ stdin_fifo = NoFd /\ stdout_fifo = NoFd
    /\ \A t \in Loops : pc[t] = "idle"
    /\ pc["main"] \in {"cleanup", "exit", "done"}
    /\ pc["main"] = "done" => exit_status = 0

\* the accept failed, the resolver returned 2, and main has returned
C9_Witness == hist.ret = 2 /\ hist.tsc = 1 /\ pc["main"] = "done" /\ exit_status = 0

\* the bytes loop t has written to a sink, in order
Sent(t, sink) ==
  LET s == SelectSeq(wr[t], LAMBDA e : e[1] = sink) IN [i \in 1..Len(s) |-> s[i][2]]

\* the bytes a source has delivered so far
Consumed(src) == SubSeq(input0[src], 1, Len(input0[src]) - Len(input[src]))

\* FIFO-in, FIFO-out and the socket are all open
AllActive ==
  \A h \in {"stdin_fifo", "stdout_fifo", "sockfd"} : handle[h] # NoFd /\ IsOpen(handle[h])

NoNul(seq) == \A i \in 1..Len(seq) : seq[i] # NUL

RECURSIVE Truncated(_, _)
Truncated(seq, n) ==
  IF seq = <<>> THEN <<>>
  ELSE IF Head(seq) = NL THEN <<NL>> \o Truncated(Tail(seq), 0)
  ELSE IF n < BufLimit THEN <<Head(seq)>> \o Truncated(Tail(seq), n + 1)
  ELSE Truncated(Tail(seq), n)

C12_NoIoOnClosed ==
  [][\A t \in Loops : (ReadCall(t) \/ WriteByte(t)) => IsOpen(loc[t].fd)]_vars

\* the write call of loop t fails in this step: the descriptor is closed, or
\* the other end of the pipe or socket is gone
WriteFails(t) == (WriteByte(t) /\ ~IsOpen(loc[t].fd)) \/ WriteBrokenPipe(t)

\* C13: in either loop, when the write to the sink fails, the loop terminates
\* (control leaves the loop) instead of going on to read the next line.
C13_WriteFailureEndsLoop ==
  [][\A t \in Loops : WriteFails(t) => pc'[t] = "kill"]_vars

\* an endpoint is active: its handle does not hold the sentinel
Active(h) == handle[h] # NoFd

\* the descriptors the upload loop is to use, by the table of the eight
\* combinations: 0 is terminal input, 1 terminal output
UploadSource == IF Active("stdin_fifo") /\ Active("sockfd") THEN stdin_fifo ELSE 0

UploadSink ==
  CASE Active("stdin_fifo") /\ Active("sockfd") -> sockfd
    [] ~(Active("stdin_fifo") /\ Active("sockfd")) /\ Active("stdout_fifo") -> stdout_fifo
    [] ~Active("stdin_fifo") /\ ~Active("stdout_fifo") /\ Active("sockfd") -> sockfd
    [] OTHER -> 1

\* C14: in each of the eight combinations of FIFO-in, FIFO-out and socket
\* being active, the upload loop reads from FIFO-in when FIFO-in and socket
\* are both active and from the terminal otherwise, and writes to the socket
\* when FIFO-in and socket are both active, else to FIFO-out if present, else
\* to the socket if present, else to the terminal.
C14_UploadTable ==
  [][/\ ReadSelect("stdin_thread") => loc'["stdin_thread"].fd = UploadSource
     /\ WriteSelect("stdin_thread") => loc'["stdin_thread"].fd = UploadSink]_vars

\* the upload loop is writing to FIFO-out although the socket is active too
\* (no FIFO-in): the second line of the sink table
C14_Witness ==
  /\ pc["stdin_thread"] = "write_call"
  /\ ~Active("stdin_fifo") /\ Active("stdout_fifo") /\ Active("sockfd")
  /\ loc["stdin_thread"].fd = stdout_fifo
  /\ loc["stdin_thread"].buf = <<NL>>

\* C15: in each of the eight combinations, the download loop reads from the
\* socket if present, else from FIFO-in if present; with neither present the
\* loop does not run: the routine returns without setting its running flag,
\* and no read or write is made; it writes to FIFO-out when FIFO-out and
\* socket are both active and to the terminal otherwise.
C15_DownloadTable ==
  [][/\ ReadSelect("stdout_thread") =>
          IF Active("sockfd") THEN loc'["stdout_thread"].fd = sockfd
          ELSE IF Active("stdin_fifo") THEN loc'["stdout_thread"].fd = stdin_fifo
          ELSE pc'["stdout_thread"] = "kill"
     /\ WriteSelect("stdout_thread") =>
          loc'["stdout_thread"].fd =
            IF Active("stdout_fifo") /\ Active("sockfd") THEN stdout_fifo ELSE 1
     /\ (RoutineStart("stdout_thread") /\ ~Active("sockfd") /\ ~Active("stdin_fifo")) =>
          (pc'["stdout_thread"] = "done" /\ ~stdout_running' /\ wr'["stdout_thread"] = <<>>)
     /\ (RoutineStart("stdout_thread") /\ (Active("sockfd") \/ Active("stdin_fifo"))) =>
          stdout_running']_vars

\* no socket and no FIFO-in were given: the download routine has returned
\* without running while the upload loop is reading the terminal
C15_Witness ==
  /\ ~args.address /\ ~args.stdin_path
  /\ pc["stdout_thread"] = "done" /\ ~stdout_running /\ wr["stdout_thread"] = <<>>
  /\ pc["stdin_thread"] = "read_blk"

\* C16: a read from the socket returns the bytes up to and including the
\* first newline or null byte (or the first BufLimit bytes), so the bytes a
\* socket read has collected hold no newline or null byte before the last
\* one; and every byte the read returned is sent by the write that follows:
\* at each loop head all that the socket delivered has been written.
C16_SocketReadStopsAtNulOrNewline ==
  /\ \A t \in Loops :
       (loc[t].fn = "socket" /\ pc[t] \in {"read_call", "read_blk", "write_sel"}) =>
         \A i \in 1..(Len(loc[t].buf) - 1) : loc[t].buf[i] \notin {NL, NUL}
  /\ (AllActive /\ pc["stdout_thread"] = "read_sel") =>
       Sent("stdout_thread", "fout") = Consumed("sock")

\* the endpoints present when the loops start are those the options name:
\* main starts the threads only when every open and the resolution succeeded.
\* The pair each loop derives from them for its first iteration:
Source0(t) ==
  IF t = "stdin_thread"
  THEN IF args.stdin_path /\ args.address THEN "fin" ELSE "tty"
  ELSE IF args.address THEN "sock" ELSE "fin"

Sink0(t) ==
  IF t = "stdin_thread"
  THEN IF args.stdin_path /\ args.address THEN "sock"
       ELSE IF args.stdout_path THEN "fout"
       ELSE IF args.address THEN "sock" ELSE "tty"
  ELSE IF args.stdout_path /\ args.address THEN "fout" ELSE "tty"

\* C17: the (source, sink) pair of a loop is fixed when the loop starts: every
\* read a loop blocks in is on the source of its first iteration and every
\* byte it writes goes to the sink of its first iteration, also after a
\* shutdown path has set handles to -1.
C17_PairFixedAtStart ==
  \A t \in Loops :
    /\ pc[t] = "read_blk" => loc[t].ep = Source0(t)
    /\ \A i \in 1..Len(wr[t]) : wr[t][i][1] = Sink0(t)

\* C18: in the server role the descriptor accept() was called on stays open
\* until that accept() has returned, whatever signal arrives during the
\* resolution, and after a successful accept the handle servfd stays open
\* until a shutdown path (sigint_handler or the closes of main) closes it.
C18_ServfdOpenForAccept ==
  /\ pc["main"] = "accept_blk" => IsOpen(loc["main"].fd)
  /\ (hist.accepted /\ sigints = 0 /\ pc["main"] \notin {"exit", "done"}) =>
       (servfd # NoFd /\ IsOpen(servfd))

\* C19: a SIGINT delivered at any moment after both loop threads have been
\* started (before a thread has set its running flag, between a read and a
\* write, or in a blocked read) ends both loops, and main gets through its
\* joins and its final closes: a run with such a SIGINT in which the program
\* can take no further step has both loops ended and main returned.
C19_SigintAfterStartEndsLoops ==
  (hist.sigStarted /\ Quiescent) => (LoopsDone /\ pc["main"] = "done")

\* the handles are as main set them up: every endpoint the options name is
\* open in its handle and no shutdown path has closed one
Intact ==
  /\ Active("sockfd") = args.address
  /\ Active("stdin_fifo") = args.stdin_path
  /\ Active("stdout_fifo") = args.stdout_path

\* C20: in every combination of active endpoints in which both loops run,
\* the two loops have different sources and different sinks: they are never
\* both in a read on the same descriptor nor both in a write on the same
\* descriptor.
C20_DistinctSourcesAndSinks ==
  (Intact /\ stdin_running /\ stdout_running) =>
    /\ (\A t \in Loops : pc[t] \in {"read_call", "read_blk"}) =>
         loc["stdin_thread"].fd # loc["stdout_thread"].fd
    /\ (\A t \in Loops : pc[t] = "write_call") =>
         loc["stdin_thread"].fd # loc["stdout_thread"].fd

====
